---- MODULE Spec2Model ----
(***************************************************************************)
(* CodeSight indexing-and-retrieval engine: the chunker (chunker.py), the  *)
(* dual store (store.py: LanceDB vector table + SQLite text sidecar), the  *)
(* incremental indexer (indexer.py: index_repo) and the query-time         *)
(* auto-index of the public API (api.py: CodeSight).                       *)
(*                                                                         *)
(* Representation.  A file's content is the list of its lines, i.e. what   *)
(* content.split("\n") returns; "\n".join(segment) is the segment itself.  *)
(* content_hash (a SHA-256 prefix) is modelled collision-free as a base-4  *)
(* positional code of the chunk's lines.  A vector is the pair of the      *)
(* embedding model that produced it and the text it embeds.                *)
(***************************************************************************)
EXTENDS Integers, Sequences, FiniteSets, Bags, TLC

(* ---------------------------- bounds ----------------------------------- *)

\* longest file, in lines, that the folder holds
MaxLen == 2

\* indexer.py:142 sets BATCH_SIZE = 64; scaled down so that a run over the
\* bounded folder flushes a batch inside the file loop as well as at the end
BATCH_SIZE == 2

\* the clock stops advancing here
MaxNow == 301

(* ------------------------ configuration -------------------------------- *)

\* ServerConfig.chunk_max_lines / chunk_overlap_lines of the running engine
chunk_max_lines == 2

chunk_overlap_lines == 1

STALE_THRESHOLD_SECONDS == 300

\* embedding models an engine can be configured with
Models == {"A", "B"}

\* repo_meta has no row for the key
None == "none"

NoTime == -1

(* --------------------------- the folder -------------------------------- *)

\* relative paths of the files the folder may hold; both extensions are in
\* INDEXABLE_EXTENSIONS, ".py" has a boundary pattern and ".txt" has none
Files == {"a.py", "b.txt"}

\* the order in which walk_repo_files lists them
FileOrder == <<"a.py", "b.txt">>

\* a scope-opening line, an ordinary line, a blank line
LineKinds == {"def f():", "x = 1", ""}

\* the file is not in the folder
Absent == <<>>

\* what a.py may hold: every file of at most MaxLen lines
PyContents == UNION {[1..n -> LineKinds] : n \in 1..MaxLen}

\* what b.txt may hold: a blank file, one window, two overlapping windows
TxtContents == {<<"">>, <<"x = 1">>, <<"x = 1", "">>}

ContentsOf(f) == IF f = "a.py" THEN PyContents ELSE TxtContents

\* the folder contents of the query-time specification
EngineContentsOf(f) ==
    IF f = "a.py" THEN {<<"x = 1", "def f():">>, <<"", "def f():">>}
    ELSE {<<"x = 1">>}

(* --------------------------- chunker.py -------------------------------- *)

LineCode(l) == CASE l = "" -> 1 [] l = "x = 1" -> 2 [] OTHER -> 3

RECURSIVE content_hash(_)
content_hash(content) ==
    IF content = <<>> THEN 0
    ELSE LineCode(Head(content)) + 4 * content_hash(Tail(content))

\* content.strip() is empty
IsBlank(lines) == \A i \in 1..Len(lines) : lines[i] = ""

_detect_language(file_path) == IF file_path = "a.py" THEN "python" ELSE "unknown"

\* _BOUNDARY_PATTERNS["python"].match(line)
PatternMatch(line) == line = "def f():"

Chunk(file_path, start_line, end_line, content) ==
    [file_path |-> file_path, start_line |-> start_line, end_line |-> end_line,
     content |-> content, content_hash |-> content_hash(content)]

chunk_id(c) == <<c.file_path, c.start_line, c.end_line, c.content_hash>>

embedding_text(c) == <<c.file_path, c.start_line, c.end_line, c.content>>

Min(a, b) == IF a < b THEN a ELSE b

\* the while loop of _split_by_windows from index i (0-based) on
RECURSIVE WindowsFrom(_, _, _, _, _, _)
WindowsFrom(lines, file_path, max_lines, overlap_lines, line_offset, i) ==
    IF ~(i < Len(lines)) THEN <<>>
    ELSE LET end == Min(i + max_lines, Len(lines))
             c == Chunk(file_path, line_offset + i + 1, line_offset + end,
                        SubSeq(lines, i + 1, end))
             next == i + (max_lines - overlap_lines)
         IN  IF next >= Len(lines) THEN <<c>>
             ELSE <<c>> \o WindowsFrom(lines, file_path, max_lines,
                                       overlap_lines, line_offset, next)

\* _split_by_windows numbering the lines of a segment from the segment's start
_split_by_windows_NoOffset(lines, file_path, max_lines, overlap_lines, line_offset) ==
    WindowsFrom(lines, file_path, max_lines, overlap_lines, 0, 0)

_split_by_windows(lines, file_path, max_lines, overlap_lines, line_offset) ==
    WindowsFrom(lines, file_path, max_lines, overlap_lines, line_offset, 0)

\* boundary_indices (0-based): line 0, then every later line the pattern matches
RECURSIVE BoundariesFrom(_, _)
BoundariesFrom(lines, i) ==
    IF i >= Len(lines) THEN <<>>
    ELSE (IF PatternMatch(lines[i + 1]) THEN <<i>> ELSE <<>>)
         \o BoundariesFrom(lines, i + 1)

\* boundary_indices without its first element
boundary_indices_MatchesOnly(lines) == BoundariesFrom(lines, 1)

boundary_indices(lines) == <<0>> \o BoundariesFrom(lines, 1)

RECURSIVE SegmentsFrom(_, _, _, _, _, _)
SegmentsFrom(lines, file_path, max_lines, overlap_lines, bounds, idx) ==
    IF idx > Len(bounds) THEN <<>>
    ELSE LET start == bounds[idx]
             end == IF idx + 1 <= Len(bounds) THEN bounds[idx + 1] ELSE Len(lines)
             segment_lines == SubSeq(lines, start + 1, end)
             here == IF Len(segment_lines) <= max_lines
                     THEN <<Chunk(file_path, start + 1, end, segment_lines)>>
                     ELSE _split_by_windows(segment_lines, file_path, max_lines,
                                            overlap_lines, start)
         IN  here \o SegmentsFrom(lines, file_path, max_lines, overlap_lines,
                                  bounds, idx + 1)

_split_by_boundaries(lines, file_path, max_lines, overlap_lines) ==
    SegmentsFrom(lines, file_path, max_lines, overlap_lines,
                 boundary_indices(lines), 1)

chunk_file(content, file_path, max_lines, overlap_lines) ==
    IF IsBlank(content) THEN <<>>
    ELSE IF _detect_language(file_path) = "python"
         THEN _split_by_boundaries(content, file_path, max_lines, overlap_lines)
         ELSE _split_by_windows(content, file_path, max_lines, overlap_lines, 0)

(* ---------------------------- store.py ---------------------------------- *)

\* The store is the pair of the text sidecar's chunks table (fts, one row per
\* chunk_id by its PRIMARY KEY) and the LanceDB table (lance, a bag of rows
\* of chunk_id and vector: the table has no key, so a row can be there more
\* than once).  A LanceDB table that was never created answers every read
\* and delete as an empty one does, so it is the empty bag.

Range(s) == {s[i] : i \in 1..Len(s)}

\* FTSSidecar.upsert_chunk: DELETE by chunk_id, then INSERT
upsert_chunk(fts, cid, meta) ==
    {r \in fts : r.chunk_id # cid}
    \cup {[chunk_id |-> cid, file_path |-> meta.file_path,
           start_line |-> meta.start_line, end_line |-> meta.end_line,
           content_hash |-> meta.content_hash, content |-> meta.content]}

\* FTSSidecar.delete_chunks_for_file: the table after the DELETE
delete_chunks_for_file(fts, file_path) == {r \in fts : r.file_path # file_path}

\* FTSSidecar.get_chunk_hashes: the rows of the file; the dict's keys are
\* their chunk_ids and its values their content_hashes
get_chunk_hashes(fts, file_path) == {r \in fts : r.file_path = file_path}

HashKeys(rows) == {r.chunk_id : r \in rows}

HashValues(rows) == {r.content_hash : r \in rows}

\* lance_table.delete(id_filter)
lance_delete(lance, ids) ==
    [r \in {x \in DOMAIN lance : x.chunk_id \notin ids} |-> lance[r]]

\* ChunkStore._ensure_lance_table: create the table from, or append, the rows
_ensure_lance_table(lance, vectors, chunk_ids) ==
    LET data == [i \in 1..Len(chunk_ids) |->
                    [chunk_id |-> chunk_ids[i], vector |-> vectors[i]]]
    IN  lance (+) [r \in Range(data) |->
                      Cardinality({i \in 1..Len(data) : data[i] = r})]

RECURSIVE UpsertRows(_, _, _, _)
UpsertRows(fts, chunk_ids, metadatas, i) ==
    IF i > Min(Len(chunk_ids), Len(metadatas)) THEN fts
    ELSE UpsertRows(upsert_chunk(fts, chunk_ids[i], metadatas[i]),
                    chunk_ids, metadatas, i + 1)

\* ChunkStore.upsert_chunks on the store st = [fts, lance]
upsert_chunks(st, chunk_ids, vectors, metadatas) ==
    IF chunk_ids = <<>> THEN st
    ELSE [fts |-> UpsertRows(st.fts, chunk_ids, metadatas, 1),
          lance |-> _ensure_lance_table(lance_delete(st.lance, Range(chunk_ids)),
                                        vectors, chunk_ids)]

\* delete_file_chunks that leaves the vector rows in place
delete_file_chunks_KeepVectors(st, file_path) ==
    [fts |-> delete_chunks_for_file(st.fts, file_path), lance |-> st.lance]

\* ChunkStore.delete_file_chunks
delete_file_chunks(st, file_path) ==
    LET chunk_ids == HashKeys(get_chunk_hashes(st.fts, file_path))
    IN  [fts |-> delete_chunks_for_file(st.fts, file_path),
         lance |-> lance_delete(st.lance, chunk_ids)]

chunk_count(fts) == Cardinality(fts)

file_count(fts) == Cardinality({r.file_path : r \in fts})

is_indexed(fts) == chunk_count(fts) > 0

\* What can go wrong inside one store call.  "lance_delete": the delete on
\* the LanceDB table raises.  "lance_add": create_table / add raises.
\* "fts_write": a statement on the sidecar or its commit raises, after done
\* of the call's row upserts were executed; the executed statements stay in
\* the connection's open transaction, where every later read of the engine
\* sees them and the next commit stores them.
NoFault == [kind |-> "none", done |-> 0]

UpsertFaults(chunk_ids) ==
    {NoFault, [kind |-> "lance_delete", done |-> 0],
     [kind |-> "lance_add", done |-> 0]}
    \cup {[kind |-> "fts_write", done |-> j] : j \in 0..Len(chunk_ids)}

DeleteFaults ==
    {NoFault, [kind |-> "lance_delete", done |-> 0],
     [kind |-> "fts_write", done |-> 0]}

\* ChunkStore.upsert_chunks under a fault: the store it leaves and whether
\* the call raised.  The except clause around the LanceDB delete passes.
UpsertOutcome(st, chunk_ids, vectors, metadatas, fault) ==
    IF chunk_ids = <<>> THEN [st |-> st, raised |-> FALSE]
    ELSE
    LET deleted == IF fault.kind = "lance_delete" THEN st.lance
                   ELSE lance_delete(st.lance, Range(chunk_ids))
    IN  IF fault.kind = "lance_add"
        THEN [st |-> [fts |-> st.fts, lance |-> deleted], raised |-> TRUE]
        ELSE IF fault.kind = "fts_write"
        THEN [st |-> [fts |-> UpsertRows(st.fts, SubSeq(chunk_ids, 1, fault.done),
                                         metadatas, 1),
                      lance |-> _ensure_lance_table(deleted, vectors, chunk_ids)],
              raised |-> TRUE]
        ELSE [st |-> [fts |-> UpsertRows(st.fts, chunk_ids, metadatas, 1),
                      lance |-> _ensure_lance_table(deleted, vectors, chunk_ids)],
              raised |-> FALSE]

\* ChunkStore.delete_file_chunks under a fault
DeleteOutcome(st, file_path, fault) ==
    LET chunk_ids == HashKeys(get_chunk_hashes(st.fts, file_path))
        deleted == IF fault.kind = "lance_delete" THEN st.lance
                   ELSE lance_delete(st.lance, chunk_ids)
    IN  IF fault.kind = "fts_write"
        THEN [st |-> [fts |-> st.fts, lance |-> deleted], raised |-> TRUE]
        ELSE [st |-> [fts |-> delete_chunks_for_file(st.fts, file_path),
                      lance |-> deleted],
              raised |-> FALSE]

(* --------------------------- indexer.py -------------------------------- *)

\* Embedder.embed of one text by the embedder of model m
Embed(m, text) == [model |-> m, text |-> text]

\* walk_repo_files: the indexable files the folder holds, in walk order
RECURSIVE WalkFrom(_, _)
WalkFrom(fold, i) ==
    IF i > Len(FileOrder) THEN <<>>
    ELSE (IF fold[FileOrder[i]] # Absent THEN <<FileOrder[i]>> ELSE <<>>)
         \o WalkFrom(fold, i + 1)

walk_repo_files(fold) == WalkFrom(fold, 1)

_chunk_text_file(fold, rel_path) ==
    chunk_file(fold[rel_path], rel_path, chunk_max_lines, chunk_overlap_lines)

_embed_and_store_batch(chunks, m, st) ==
    upsert_chunks(st,
                  [i \in 1..Len(chunks) |-> chunk_id(chunks[i])],
                  [i \in 1..Len(chunks) |-> Embed(m, embedding_text(chunks[i]))],
                  chunks)

\* the inner "for chunk in chunks" loop: what it skips and what it batches
RECURSIVE SelectChunks(_, _, _, _)
SelectChunks(chunks, existing_hashes, force_rebuild, i) ==
    IF i > Len(chunks) THEN [skipped |-> 0, batch |-> <<>>]
    ELSE LET rest == SelectChunks(chunks, existing_hashes, force_rebuild, i + 1)
         IN  IF chunks[i].content_hash \in HashValues(existing_hashes)
                /\ ~force_rebuild
             THEN [rest EXCEPT !.skipped = @ + 1]
             ELSE [rest EXCEPT !.batch = <<chunks[i]>> \o @]

\* one iteration of "for fpath in files" on the loop state L
ProcessFile(L, fold, rel_path, m, force_rebuild) ==
    LET chunks == _chunk_text_file(fold, rel_path)
    IN  IF chunks = <<>> THEN L
        ELSE
        LET existing_hashes == get_chunk_hashes(L.st.fts, rel_path)
            new_chunk_ids == {chunk_id(c) : c \in Range(chunks)}
            old_chunk_ids == HashKeys(existing_hashes)
            changed == new_chunk_ids # old_chunk_ids
            st1 == IF changed THEN delete_file_chunks(L.st, rel_path) ELSE L.st
            sel == SelectChunks(chunks, existing_hashes, force_rebuild, 1)
            batch1 == L.batch \o sel.batch
            flush == Len(batch1) >= BATCH_SIZE
        IN  [st |-> IF flush THEN _embed_and_store_batch(batch1, m, st1) ELSE st1,
             batch |-> IF flush THEN <<>> ELSE batch1,
             created |-> IF flush THEN L.created + Len(batch1) ELSE L.created,
             skipped |-> L.skipped + sel.skipped,
             files_indexed |-> L.files_indexed + 1,
             embedded |-> IF flush THEN L.embedded \cup Range(batch1) ELSE L.embedded,
             deleted |-> IF changed THEN L.deleted \cup {rel_path} ELSE L.deleted,
             rows_deleted |-> IF changed
                              THEN L.rows_deleted + Cardinality(existing_hashes)
                              ELSE L.rows_deleted]

\* the one element of a singleton: binds a computed value to a name
Only(S) == CHOOSE x \in S : TRUE

RECURSIVE FileLoop(_, _, _, _, _, _)
FileLoop(L, fold, files, m, force_rebuild, i) ==
    IF i > Len(files) THEN L
    ELSE Only({FileLoop(L1, fold, files, m, force_rebuild, i + 1) :
               L1 \in {ProcessFile(L, fold, files[i], m, force_rebuild)}})

\* Finish that does not count the chunks of the last flush
Finish_FlushNotCounted(L1, st2, mt, m, t, commit) ==
    [st |-> st2,
     meta |-> [mt EXCEPT !.last_commit = IF commit # None THEN commit ELSE @,
                         !.last_indexed_at = t, !.embedding_model = m],
     stats |-> [files_indexed |-> L1.files_indexed,
                chunks_created |-> L1.created,
                chunks_skipped_unchanged |-> L1.skipped,
                total_chunks |-> chunk_count(st2.fts),
                chunks_deleted |-> 0],
     embedded |-> IF L1.batch # <<>> THEN L1.embedded \cup Range(L1.batch)
                  ELSE L1.embedded,
     deleted |-> L1.deleted,
     rows_deleted |-> L1.rows_deleted]

\* what follows the file loop, which ended in loop state L1 with store st2
\* after the flush of the remaining batch; IndexStats is built without
\* chunks_deleted, which keeps its default 0
Finish(L1, st2, mt, m, t, commit) ==
    LET rest == L1.batch # <<>>
    IN  [st |-> st2,
         meta |-> [mt EXCEPT !.last_commit = IF commit # None THEN commit ELSE @,
                             !.last_indexed_at = t, !.embedding_model = m],
         stats |-> [files_indexed |-> L1.files_indexed,
                    chunks_created |-> IF rest THEN L1.created + Len(L1.batch)
                                      ELSE L1.created,
                    chunks_skipped_unchanged |-> L1.skipped,
                    total_chunks |-> chunk_count(st2.fts),
                    chunks_deleted |-> 0],
         embedded |-> IF rest THEN L1.embedded \cup Range(L1.batch) ELSE L1.embedded,
         deleted |-> L1.deleted,
         rows_deleted |-> L1.rows_deleted]

\* index_repo on store st and repo_meta mt, with the configured model m, at
\* time t: the store and metadata it leaves, the IndexStats it returns, the
\* chunks it sent to the embedder, the files it called delete_file_chunks on
\* and the number of rows those calls deleted
index_repo(st, mt, fold, m, force_rebuild, t, commit) ==
    LET L0 == [st |-> st, batch |-> <<>>, created |-> 0, skipped |-> 0,
               files_indexed |-> 0, embedded |-> {}, deleted |-> {},
               rows_deleted |-> 0]
    IN  Only({Only({Finish(L1, st2, mt, m, t, commit) :
                    st2 \in {IF L1.batch # <<>>
                             THEN _embed_and_store_batch(L1.batch, m, L1.st)
                             ELSE L1.st}}) :
              L1 \in {FileLoop(L0, fold, walk_repo_files(fold), m,
                               force_rebuild, 1)}})

\* What can go wrong in one iteration of the file loop or in a flush: the
\* read of the file ("read"), embedder.embed ("embed"), or a store fault in
\* delete_file_chunks ("delete") or in upsert_chunks ("upsert")
StepFault(at, fault) == [at |-> at, store |-> fault]

NoStepFault == StepFault("none", NoFault)

StoreFaultAt(sf, at) == IF sf.at = at THEN sf.store ELSE NoFault

\* _embed_and_store_batch that writes the text rows before it embeds
EmbedAndStoreOutcome_RowsFirst(chunks, m, st, sf) ==
    IF sf.at = "embed"
    THEN [st |-> [fts |-> UpsertRows(st.fts,
                                     [i \in 1..Len(chunks) |-> chunk_id(chunks[i])],
                                     chunks, 1),
                  lance |-> st.lance],
          raised |-> TRUE]
    ELSE UpsertOutcome(st,
                       [i \in 1..Len(chunks) |-> chunk_id(chunks[i])],
                       [i \in 1..Len(chunks) |-> Embed(m, embedding_text(chunks[i]))],
                       chunks, StoreFaultAt(sf, "upsert"))

\* _embed_and_store_batch under a fault: embedder.embed is called, and can
\* raise, before the store is touched
EmbedAndStoreOutcome(chunks, m, st, sf) ==
    IF sf.at = "embed" THEN [st |-> st, raised |-> TRUE]
    ELSE UpsertOutcome(st,
                       [i \in 1..Len(chunks) |-> chunk_id(chunks[i])],
                       [i \in 1..Len(chunks) |-> Embed(m, embedding_text(chunks[i]))],
                       chunks, StoreFaultAt(sf, "upsert"))

\* one iteration of "for fpath in files" that counts the file before it
\* looks at its chunks
ProcessFileOutcome_CountFirst(L, fold, rel_path, m, force_rebuild, sf) ==
    IF sf.at = "read"
    THEN [L |-> [L EXCEPT !.files_indexed = @ + 1], raised |-> FALSE, hit |-> TRUE]
    ELSE [L |-> ProcessFile(L, fold, rel_path, m, force_rebuild),
          raised |-> FALSE, hit |-> FALSE]

\* one iteration of "for fpath in files" on the loop state L under a fault:
\* the loop state it leaves, whether it raised, and whether the faulty call
\* was made at all.  _chunk_text_file catches the read error and returns [].
ProcessFileOutcome(L, fold, rel_path, m, force_rebuild, sf) ==
    LET chunks == IF sf.at = "read" THEN <<>> ELSE _chunk_text_file(fold, rel_path)
    IN  IF chunks = <<>> THEN [L |-> L, raised |-> FALSE, hit |-> sf.at = "read"]
        ELSE
        LET existing_hashes == get_chunk_hashes(L.st.fts, rel_path)
            new_chunk_ids == {chunk_id(c) : c \in Range(chunks)}
            old_chunk_ids == HashKeys(existing_hashes)
            changed == new_chunk_ids # old_chunk_ids
            del == IF changed
                   THEN DeleteOutcome(L.st, rel_path, StoreFaultAt(sf, "delete"))
                   ELSE [st |-> L.st, raised |-> FALSE]
            del_hit == /\ sf.at = "delete"
                       /\ changed
                       /\ sf.store.kind = "lance_delete" =>
                              \E r \in DOMAIN L.st.lance : r.chunk_id \in old_chunk_ids
            sel == SelectChunks(chunks, existing_hashes, force_rebuild, 1)
            batch1 == L.batch \o sel.batch
            flush == Len(batch1) >= BATCH_SIZE
            out == IF flush THEN EmbedAndStoreOutcome(batch1, m, del.st, sf)
                   ELSE [st |-> del.st, raised |-> FALSE]
            flush_hit == /\ sf.at \in {"embed", "upsert"}
                         /\ flush
                         /\ (sf.at = "upsert" /\ sf.store.kind = "lance_delete")
                                => del.st.lance # EmptyBag
            done == flush /\ ~out.raised
        IN  IF del.raised
            THEN [L |-> [L EXCEPT !.st = del.st, !.files_indexed = @ + 1],
                  raised |-> TRUE, hit |-> del_hit]
            ELSE [L |-> [st |-> out.st,
                         batch |-> IF done THEN <<>> ELSE batch1,
                         created |-> IF done THEN L.created + Len(batch1)
                                     ELSE L.created,
                         skipped |-> L.skipped + sel.skipped,
                         files_indexed |-> L.files_indexed + 1,
                         embedded |-> IF done THEN L.embedded \cup Range(batch1)
                                      ELSE L.embedded,
                         deleted |-> IF changed THEN L.deleted \cup {rel_path}
                                     ELSE L.deleted,
                         rows_deleted |-> IF changed
                                          THEN L.rows_deleted
                                               + Cardinality(existing_hashes)
                                          ELSE L.rows_deleted],
                  raised |-> out.raised,
                  hit |-> del_hit \/ flush_hit]

\* the metadata writes that end index_repo, each committed on its own, of
\* which the one named by fault raises ("none": none does): the repo_meta
\* they leave
MetaWrites == <<"last_commit", "touch_indexed", "embedding_model">>

WriteMetadata(mt, m, t, commit, fault) ==
    LET reached(k) == \A j \in 1..(k - 1) : MetaWrites[j] # fault
        written(k) == reached(k) /\ MetaWrites[k] # fault
    IN  [last_commit |-> IF commit # None /\ written(1) THEN commit
                         ELSE mt.last_commit,
         last_indexed_at |-> IF written(2) THEN t ELSE mt.last_indexed_at,
         embedding_model |-> IF written(3) THEN m ELSE mt.embedding_model]

(* ----------------------------- api.py ----------------------------------- *)

\* _embedding_model_changed that takes an unset stored model for another model
_embedding_model_changed_UnsetDiffers(mt, m) == mt.embedding_model # m

\* CodeSight._embedding_model_changed
_embedding_model_changed(mt, m) ==
    IF mt.embedding_model = None THEN FALSE ELSE mt.embedding_model # m

\* _is_stale with the comparison off by one: an age of exactly the
\* threshold counts as stale
_is_stale_AtThreshold(mt, t) ==
    IF mt.last_indexed_at = NoTime THEN TRUE
    ELSE t - mt.last_indexed_at >= STALE_THRESHOLD_SECONDS

\* CodeSight._is_stale at time t
_is_stale(mt, t) ==
    IF mt.last_indexed_at = NoTime THEN TRUE
    ELSE t - mt.last_indexed_at > STALE_THRESHOLD_SECONDS

\* CodeSight._ensure_indexed: the index runs it makes, as their force_rebuild flags
_ensure_indexed(st, mt, m, t) ==
    IF ~is_indexed(st.fts) THEN <<FALSE>>
    ELSE IF _embedding_model_changed(mt, m) THEN <<TRUE>>
    ELSE IF _is_stale(mt, t) THEN <<FALSE>>
    ELSE <<>>

\* CodeSight.status
status(st, mt, t) ==
    [indexed |-> is_indexed(st.fts),
     chunk_count |-> chunk_count(st.fts),
     files_indexed |-> file_count(st.fts),
     last_indexed_at |-> mt.last_indexed_at,
     stale |-> IF is_indexed(st.fts) THEN _is_stale(mt, t) ELSE FALSE]

(* ----------------------------- search.py -------------------------------- *)

\* the default of rrf_merge's parameter k
DEFAULT_RRF_K == 60

\* A fused score is the exact fraction num/den; the code's floats order and
\* equate these sums as the fractions do.
ZeroScore == [num |-> 0, den |-> 1]

\* scores.get(doc_id, 0.0) + x
AddScore(a, b) == [num |-> a.num * b.den + b.num * a.den, den |-> a.den * b.den]

ScoreLess(a, b) == a.num * b.den < b.num * a.den

ScoreEq(a, b) == a.num * b.den = b.num * a.den

\* 1.0 / (k + rank + 1) with the rank counted from one
Contribution_OneBased(k, rank) == [num |-> 1, den |-> k + rank]

\* 1.0 / (k + rank + 1) for the 0-based rank that enumerate() yields
Contribution(k, rank) == [num |-> 1, den |-> k + rank + 1]

\* scores[doc_id] = scores.get(doc_id, 0.0) + x on the dict scores, kept as
\* the list of its items in insertion order
Accumulate(scores, doc_id, x) ==
    IF \E j \in 1..Len(scores) : scores[j].doc_id = doc_id
    THEN [j \in 1..Len(scores) |->
            IF scores[j].doc_id = doc_id
            THEN [doc_id |-> doc_id, score |-> AddScore(scores[j].score, x)]
            ELSE scores[j]]
    ELSE Append(scores, [doc_id |-> doc_id, score |-> AddScore(ZeroScore, x)])

\* "for rank, doc_id in enumerate(ranked)" from position i (1-based) on
RECURSIVE AddRanked(_, _, _, _)
AddRanked(scores, ranked, k, i) ==
    IF i > Len(ranked) THEN scores
    ELSE Only({AddRanked(s1, ranked, k, i + 1) :
               s1 \in {Accumulate(scores, ranked[i], Contribution(k, i - 1))}})

\* "for ranked in ranked_lists" from list n on
RECURSIVE AddLists(_, _, _, _)
AddLists(scores, ranked_lists, k, n) ==
    IF n > Len(ranked_lists) THEN scores
    ELSE Only({AddLists(s1, ranked_lists, k, n + 1) :
               s1 \in {AddRanked(scores, ranked_lists[n], k, 1)}})

\* x put into the list done, which is in descending score order, behind
\* every item that does not score less
InsertDescending(done, x) ==
    LET p == Cardinality({j \in 1..Len(done) : ~ScoreLess(done[j].score, x.score)})
    IN  SubSeq(done, 1, p) \o <<x>> \o SubSeq(done, p + 1, Len(done))

\* sorted(items, key=score, reverse=True) of the first n items: the sort is
\* stable, so items of equal score stay in the order they have in items
RECURSIVE SortedDescending(_, _)
SortedDescending(items, n) ==
    IF n = 0 THEN <<>>
    ELSE Only({InsertDescending(done, items[n]) :
               done \in {SortedDescending(items, n - 1)}})

\* rrf_merge: the list of (doc_id, score) pairs it returns
rrf_merge(ranked_lists, k) ==
    Only({SortedDescending(scores, Len(scores)) :
          scores \in {AddLists(<<>>, ranked_lists, k, 1)}})

BM25_CANDIDATE_MULTIPLIER == 3

\* the quotient and remainder of num * 10^n by den, by long division
RECURSIVE Scaled(_, _, _)
Scaled(num, den, n) ==
    IF n = 0 THEN [q |-> num \div den, r |-> num % den]
    ELSE Only({[q |-> 10 * p.q + (10 * p.r) \div den, r |-> (10 * p.r) % den] :
               p \in {Scaled(num, den, n - 1)}})

\* round(score, 6), in millionths
Round6(score) == (Scaled(score.num, score.den, 7).q + 5) \div 10

\* ChunkStore.vector_search(query_vector, top_k): what the nearest-neighbour
\* query can return for some query vector, i.e. every ranking of the
\* table's rows, cut at top_k
RowsOf(lance, cid) ==
    BagCardinality([r \in {x \in DOMAIN lance : x.chunk_id = cid} |-> lance[r]])

vector_search(lance, top_k) ==
    LET n == Min(BagCardinality(lance), top_k)
        ids == HashKeys(DOMAIN lance)
    IN  {r \in [1..n -> ids] :
            \A cid \in ids :
                Cardinality({i \in 1..n : r[i] = cid}) <= RowsOf(lance, cid)}

\* FTSSidecar.bm25_search(query, top_k): what it can return for some query,
\* i.e. every ranking of some of the rows, cut at top_k
bm25_search(fts, top_k) ==
    {r \in UNION {[1..n -> HashKeys(fts)] : n \in 0..Min(Cardinality(fts), top_k)} :
        \A i, j \in 1..Len(r) : i # j => r[i] # r[j]}

\* the loop over top_chunk_ids from position i on: ids without a row in the
\* sidecar are passed over
RECURSIVE BuildResults(_, _, _)
BuildResults(top, fts, i) ==
    IF i > Len(top) THEN <<>>
    ELSE (IF \E row \in fts : row.chunk_id = top[i].doc_id
          THEN LET meta == CHOOSE row \in fts : row.chunk_id = top[i].doc_id
               IN  <<[file_path |-> meta.file_path, start_line |-> meta.start_line,
                      end_line |-> meta.end_line, snippet |-> meta.content,
                      score |-> Round6(top[i].score), chunk_id |-> top[i].doc_id]>>
          ELSE <<>>)
         \o BuildResults(top, fts, i + 1)

\* hybrid_search from the two ranked lists on: the merged list and the
\* results (a snippet is the whole content: no chunk of the bounded folder
\* reaches the 1500 characters at which the code cuts it)
hybrid_search(fts, vec_ids, bm25_ids, top_k) ==
    IF vec_ids = <<>> /\ bm25_ids = <<>> THEN [merged |-> <<>>, results |-> <<>>]
    ELSE Only({[merged |-> merged,
                results |-> BuildResults(SubSeq(merged, 1, Min(top_k, Len(merged))),
                                         fts, 1)] :
               merged \in {rrf_merge(<<vec_ids, bm25_ids>>, DEFAULT_RRF_K)}})

(* -------------------------- the state machine --------------------------- *)

VARIABLES
    folder,        \* file path -> the file's lines, or Absent
    fts,           \* rows of the sidecar's chunks table
    lance,         \* rows of the LanceDB table, with their multiplicity
    meta,          \* repo_meta: embedding_model, last_indexed_at
    config_model,  \* ServerConfig.embedding_model of the engine
    now,           \* the clock, in seconds
    last,          \* the last operation: what it was called with and returned
    query,         \* the last retrieval call: its ranked lists and its result
    run,           \* the index run in progress: where it is, what it holds
    chunking       \* the chunk_file call: its arguments, where it is, its chunks

vars == <<folder, fts, lance, meta, config_model, now, last, query, run,
          chunking>>

\* index_repo asks for the HEAD commit only when is_git_repo(repo_path); the
\* folder of the engine specifications is not under version control
NoCommit == None

store == [fts |-> fts, lance |-> lance]

NoStats == [files_indexed |-> 0, chunks_created |-> 0,
            chunks_skipped_unchanged |-> 0, total_chunks |-> 0,
            chunks_deleted |-> 0]

\* the record of an operation: its name, the index runs it made (their
\* force_rebuild flags) and what the last of them returned and did, and what
\* the operation found: a non-empty index, the stored model, the index's age
NoOp == [op |-> "none", runs |-> <<>>, stats |-> NoStats,
         embedded |-> {}, deleted |-> {}, rows_deleted |-> 0,
         was_indexed |-> FALSE, was_model |-> None, was_age |-> NoTime]

Found == [NoOp EXCEPT !.was_indexed = is_indexed(fts),
                      !.was_model = meta.embedding_model,
                      !.was_age = IF meta.last_indexed_at = NoTime THEN NoTime
                                  ELSE now - meta.last_indexed_at]

Ran(op, runs, r) ==
    [Found EXCEPT !.op = op, !.runs = runs, !.stats = r.stats,
                  !.embedded = r.embedded, !.deleted = r.deleted,
                  !.rows_deleted = r.rows_deleted]

\* no retrieval call was made
NoQuery == [op |-> "none", vec_ids |-> <<>>, bm25_ids |-> <<>>, top_k |-> 0,
            merged |-> <<>>, results |-> <<>>]

\* no index run is in progress
NoRun == [pc |-> "idle"]

\* chunk_file is not being called
NoChunking == [pc |-> "none"]

\* a new engine on an empty folder with an empty store
InitEngine ==
    /\ folder = [f \in Files |-> Absent]
    /\ fts = {}
    /\ lance = EmptyBag
    /\ run = NoRun
    /\ meta = [embedding_model |-> None, last_indexed_at |-> NoTime,
               last_commit |-> None]
    /\ config_model = "A"
    /\ now = 0
    /\ last = NoOp

Init ==
    /\ InitEngine
    /\ query = NoQuery
    /\ chunking = NoChunking

\* a file is added to the folder, or its content is replaced
EditFile(f, c) ==
    /\ folder[f] # c
    /\ folder' = [folder EXCEPT ![f] = c]
    /\ last' = [NoOp EXCEPT !.op = IF folder[f] = Absent THEN "add" ELSE "edit"]
    /\ UNCHANGED <<fts, lance, meta, config_model, now, query, run, chunking>>

\* a file is removed from the folder
RemoveFile(f) ==
    /\ folder[f] # Absent
    /\ folder' = [folder EXCEPT ![f] = Absent]
    /\ last' = [NoOp EXCEPT !.op = "remove"]
    /\ UNCHANGED <<fts, lance, meta, config_model, now, query, run, chunking>>

\* CodeSight.index(force_rebuild)
Index(force_rebuild) ==
    \E r \in {index_repo(store, meta, folder, config_model, force_rebuild, now,
                          NoCommit)} :
        /\ fts' = r.st.fts
        /\ lance' = r.st.lance
        /\ meta' = r.meta
        /\ last' = Ran("index", <<force_rebuild>>, r)
        /\ UNCHANGED <<folder, config_model, now, query, run, chunking>>

\* CodeSight.search: _ensure_indexed, then the read-only hybrid_search
Search ==
    \E runs \in {_ensure_indexed(store, meta, config_model, now)} :
        /\ IF runs = <<>>
           THEN /\ last' = [Found EXCEPT !.op = "search"]
                /\ UNCHANGED <<fts, lance, meta>>
           ELSE \E r \in {index_repo(store, meta, folder, config_model,
                                    runs[1], now, NoCommit)} :
                    /\ fts' = r.st.fts
                    /\ lance' = r.st.lance
                    /\ meta' = r.meta
                    /\ last' = Ran("search", runs, r)
        /\ UNCHANGED <<folder, config_model, now, query, run, chunking>>

\* the engine is reopened with another embedding model configured
Reconfigure(m) ==
    /\ m # config_model
    /\ config_model' = m
    /\ last' = [NoOp EXCEPT !.op = "config"]
    /\ UNCHANGED <<folder, fts, lance, meta, now, query, run, chunking>>

\* time passes
Tick(d) ==
    /\ now + d <= MaxNow
    /\ now' = now + d
    /\ UNCHANGED <<folder, fts, lance, meta, config_model, last, query, run,
                 chunking>>

TickSteps == {300, 301}

Next ==
    \/ \E f \in Files : \E c \in ContentsOf(f) : EditFile(f, c)
    \/ \E f \in Files : RemoveFile(f)
    \/ \E force_rebuild \in BOOLEAN : Index(force_rebuild)

Spec == Init /\ [][Next]_vars

NextEngine ==
    \/ \E f \in Files : \E c \in EngineContentsOf(f) : EditFile(f, c)
    \/ \E f \in Files : RemoveFile(f)
    \/ \E force_rebuild \in BOOLEAN : Index(force_rebuild)
    \/ Search
    \/ \E m \in Models : Reconfigure(m)
    \/ \E d \in TickSteps : Tick(d)

SpecEngine == Init /\ [][NextEngine]_vars

(* ------------------- rrf_merge on its own (search.py) ------------------- *)

\* chunk ids two ranked lists can share, numbered in the lexicographic order
\* of the chunk_id strings
DocIds == {1, 2, 3}

\* most hits that only one of the two lists holds, ranked above the others
MaxPad == 5

\* the p best hits of the vector list, and of the BM25 list, that the other
\* list does not hold
VecOnly(p) == [i \in 1..p |-> 10 + i]

Bm25Only(p) == [i \in 1..p |-> 20 + i]

\* the ranked lists of distinct ids among DocIds
Rankings(ids) ==
    {r \in UNION {[1..n -> ids] : n \in 0..Cardinality(ids)} :
        \A i, j \in 1..Len(r) : i # j => r[i] # r[j]}

InitRRF ==
    /\ InitEngine
    /\ chunking = NoChunking
    /\ \E p, q \in 0..MaxPad : \E v, b \in Rankings(DocIds) :
           query = [NoQuery EXCEPT !.op = "lists",
                                   !.vec_ids = VecOnly(p) \o v,
                                   !.bm25_ids = Bm25Only(q) \o b]

\* rrf_merge([vec_ids, bm25_ids])
Merge ==
    /\ query.op = "lists"
    /\ query' = [query EXCEPT
                    !.op = "rrf_merge",
                    !.merged = rrf_merge(<<query.vec_ids, query.bm25_ids>>,
                                         DEFAULT_RRF_K)]
    /\ UNCHANGED <<folder, fts, lance, meta, config_model, now, last, run,
                 chunking>>

NextRRF == Merge

SpecRRF == InitRRF /\ [][NextRRF]_vars

(* ------------- the store and hybrid_search called directly ------------- *)

\* most rows the LanceDB table holds
MaxRows == 2

\* the chunks the calls are made with
StoreChunks == {Chunk("a.py", 1, 1, <<"x = 1">>), Chunk("b.txt", 1, 1, <<"x = 1">>)}

\* the lists one upsert_chunks call can be given; an id can be in it twice
ChunkLists == UNION {[1..n -> StoreChunks] : n \in 1..Cardinality(StoreChunks)}

TopKs == {1, 2}

\* the record of a store call
StoreCall(op, chunks, m, fault, raised) ==
    [op |-> op, chunks |-> chunks, model |-> m, fault |-> fault, raised |-> raised]

\* store.upsert_chunks(chunk_ids, vectors, metadatas) for the chunks,
\* embedded by model m
Upsert(chunks, m, fault) ==
    \E out \in {UpsertOutcome(store,
                               [i \in 1..Len(chunks) |-> chunk_id(chunks[i])],
                               [i \in 1..Len(chunks) |->
                                   Embed(m, embedding_text(chunks[i]))],
                               chunks, fault)} :
        /\ fault.kind = "lance_delete" => lance # EmptyBag
        /\ BagCardinality(out.st.lance) <= MaxRows
        /\ fts' = out.st.fts
        /\ lance' = out.st.lance
        /\ last' = StoreCall("upsert_chunks", chunks, m, fault, out.raised)
        /\ query' = NoQuery
        /\ UNCHANGED <<folder, meta, config_model, now, run, chunking>>

\* store.delete_file_chunks(file_path)
DeleteFile(file_path, fault) ==
    \E out \in {DeleteOutcome(store, file_path, fault)} :
        /\ fault.kind = "lance_delete" =>
               \E r \in DOMAIN lance :
                   r.chunk_id \in HashKeys(get_chunk_hashes(fts, file_path))
        /\ fts' = out.st.fts
        /\ lance' = out.st.lance
        /\ last' = StoreCall("delete_file_chunks", <<>>, None, fault, out.raised)
        /\ query' = NoQuery
        /\ UNCHANGED <<folder, meta, config_model, now, run, chunking>>

\* hybrid_search(store, embedder, query, top_k): the two retrievers answer
\* with some ranking of what their index holds
HybridSearch(top_k) ==
    \E vec_ids \in vector_search(lance, top_k * BM25_CANDIDATE_MULTIPLIER) :
    \E bm25_ids \in bm25_search(fts, top_k * BM25_CANDIDATE_MULTIPLIER) :
    \E out \in {hybrid_search(fts, vec_ids, bm25_ids, top_k)} :
        /\ query' = [op |-> "hybrid_search", vec_ids |-> vec_ids,
                     bm25_ids |-> bm25_ids, top_k |-> top_k,
                     merged |-> out.merged, results |-> out.results]
        /\ last' = NoOp
        /\ UNCHANGED <<folder, fts, lance, meta, config_model, now, run,
                     chunking>>

NextStore ==
    \/ \E chunks \in ChunkLists : \E m \in Models :
           \E fault \in UpsertFaults(chunks) : Upsert(chunks, m, fault)
    \/ \E f \in Files : \E fault \in DeleteFaults : DeleteFile(f, fault)
    \/ \E top_k \in TopKs : HybridSearch(top_k)

SpecStore == Init /\ [][NextStore]_vars

(* --------------------- index_repo, statement by statement --------------- *)

\* the folder contents of this specification: a.py yields one chunk or two,
\* b.txt one
RunContentsOf(f) ==
    IF f = "a.py" THEN {<<"def f():">>, <<"def f():", "def f():">>}
    ELSE {<<"x = 1">>}

\* what current_commit can return: HEAD of a repository, or None
Commits == {"c1"}

\* the faults of the file reads and of the embedder
RunFaults ==
    {NoStepFault, StepFault("read", NoFault), StepFault("embed", NoFault)}

\* the faults of the store calls; index_repo drops its ChunkStore when it
\* raises, which rolls back what the failed call left in the open transaction
StoreRunFaults ==
    {NoStepFault}
    \cup {StepFault("delete", f) : f \in DeleteFaults \ {NoFault}}
    \cup {StepFault("upsert", f) : f \in UpsertFaults(<<>>) \ {NoFault}}

FlushFaults(faults) == {sf \in faults : sf.at \in {"none", "embed", "upsert"}}

\* the loop state of the run in progress
LoopState ==
    [st |-> store, batch |-> run.batch, created |-> run.created,
     skipped |-> run.skipped, files_indexed |-> run.files_indexed,
     embedded |-> run.embedded, deleted |-> run.deleted,
     rows_deleted |-> run.rows_deleted]

\* the record of an index() that ended: whether it raised and on what, the
\* IndexStats it returned, the number of chunks its flushed batches held,
\* the files it could not read, whether it swallowed a store fault
RunEnded(raised, cause, stats, created, unread, swallowed) ==
    [op |-> "index", raised |-> raised, cause |-> cause, stats |-> stats,
     created |-> created, unread |-> unread, swallowed |-> swallowed]

\* index_repo up to the file loop
RunBegin(force_rebuild) ==
    /\ run.pc = "idle"
    /\ run' = [pc |-> "files", force_rebuild |-> force_rebuild,
               files |-> walk_repo_files(folder), i |-> 1,
               batch |-> <<>>, created |-> 0, skipped |-> 0, files_indexed |-> 0,
               embedded |-> {}, deleted |-> {}, rows_deleted |-> 0,
               unread |-> {}, swallowed |-> FALSE, st0 |-> store]
    /\ UNCHANGED <<folder, fts, lance, meta, config_model, now, last, query,
                 chunking>>

\* a swallowed delete leaves rows behind; it is let happen only on a table
\* without duplicate rows, which keeps the table bounded
FaultAllowed(sf) ==
    sf.store.kind = "lance_delete" => \A r \in DOMAIN lance : lance[r] = 1

\* one iteration of the file loop
RunFile(sf) ==
    /\ run.pc = "files"
    /\ run.i <= Len(run.files)
    /\ FaultAllowed(sf)
    /\ \E out \in {ProcessFileOutcome(LoopState, folder, run.files[run.i],
                                       config_model, run.force_rebuild, sf)} :
        /\ sf.at # "none" => out.hit
        /\ fts' = out.L.st.fts
        /\ lance' = out.L.st.lance
        /\ IF out.raised
           THEN /\ run' = NoRun
                /\ last' = RunEnded(TRUE, sf.at, NoStats, run.created,
                                    run.unread, run.swallowed)
           ELSE /\ run' = [run EXCEPT
                             !.i = @ + 1,
                             !.batch = out.L.batch,
                             !.created = out.L.created,
                             !.skipped = out.L.skipped,
                             !.files_indexed = out.L.files_indexed,
                             !.embedded = out.L.embedded,
                             !.deleted = out.L.deleted,
                             !.rows_deleted = out.L.rows_deleted,
                             !.unread = IF sf.at = "read"
                                        THEN @ \cup {run.files[run.i]} ELSE @,
                             !.swallowed = @ \/ sf.at \in {"delete", "upsert"}]
                /\ UNCHANGED last
    /\ UNCHANGED <<folder, meta, config_model, now, query, chunking>>

\* "Flush remaining", after the file loop
RunFlush(sf) ==
    /\ run.pc = "files"
    /\ run.i > Len(run.files)
    /\ FaultAllowed(sf)
    /\ sf.at # "none" =>
           /\ run.batch # <<>>
           /\ sf.store.kind = "lance_delete" => lance # EmptyBag
    /\ \E out \in {IF run.batch # <<>>
                    THEN EmbedAndStoreOutcome(run.batch, config_model, store, sf)
                    ELSE [st |-> store, raised |-> FALSE]} :
        /\ fts' = out.st.fts
        /\ lance' = out.st.lance
        /\ IF out.raised
           THEN /\ run' = NoRun
                /\ last' = RunEnded(TRUE, sf.at, NoStats, run.created,
                                    run.unread, run.swallowed)
           ELSE /\ run' = [run EXCEPT
                             !.pc = "meta",
                             !.created = @ + Len(run.batch),
                             !.embedded = @ \cup Range(run.batch),
                             !.batch = <<>>,
                             !.swallowed = @ \/ sf.at \in {"delete", "upsert"}]
                /\ UNCHANGED last
    /\ UNCHANGED <<folder, meta, config_model, now, query, chunking>>

\* "Update metadata" and the return of the IndexStats
RunFinish(commit, fault) ==
    /\ run.pc = "meta"
    /\ fault = "last_commit" => commit # None
    /\ meta' = WriteMetadata(meta, config_model, now, commit, fault)
    /\ last' = IF fault # "none"
               THEN RunEnded(TRUE, "meta", NoStats, run.created, run.unread,
                             run.swallowed)
               ELSE RunEnded(FALSE, "none",
                             [files_indexed |-> run.files_indexed,
                              chunks_created |-> run.created,
                              chunks_skipped_unchanged |-> run.skipped,
                              total_chunks |-> chunk_count(fts),
                              chunks_deleted |-> 0],
                             run.created, run.unread, run.swallowed)
    /\ run' = NoRun
    /\ UNCHANGED <<folder, fts, lance, config_model, now, query, chunking>>

\* the run is cancelled between two statements
Cancel ==
    /\ run.pc # "idle"
    /\ last' = RunEnded(TRUE, "cancel", NoStats, run.created, run.unread,
                        run.swallowed)
    /\ run' = NoRun
    /\ UNCHANGED <<folder, fts, lance, meta, config_model, now, query,
                 chunking>>

NextRun ==
    \/ \E f \in Files : \E c \in RunContentsOf(f) : run.pc = "idle" /\ EditFile(f, c)
    \/ \E f \in Files : run.pc = "idle" /\ RemoveFile(f)
    \/ \E force_rebuild \in BOOLEAN : RunBegin(force_rebuild)
    \/ \E sf \in RunFaults : RunFile(sf)
    \/ \E sf \in FlushFaults(RunFaults) : RunFlush(sf)
    \/ \E commit \in Commits \cup {None} :
       \E fault \in Range(MetaWrites) \cup {"none"} : RunFinish(commit, fault)
    \/ Cancel

SpecRun == Init /\ [][NextRun]_vars

\* index runs on a folder that is not under version control, with store
\* calls that can fail
NextRunStore ==
    \/ \E f \in Files : \E c \in RunContentsOf(f) : run.pc = "idle" /\ EditFile(f, c)
    \/ \E force_rebuild \in BOOLEAN : RunBegin(force_rebuild)
    \/ \E sf \in StoreRunFaults : RunFile(sf)
    \/ \E sf \in FlushFaults(StoreRunFaults) : RunFlush(sf)
    \/ RunFinish(NoCommit, "none")

SpecRunStore == Init /\ [][NextRunStore]_vars

\* the engine used while index runs can be cancelled or can fail on the
\* write of embedding_model: search() and a changed configuration come
\* between the runs
NextRunEngine ==
    \/ \E f \in Files : \E c \in RunContentsOf(f) : run.pc = "idle" /\ EditFile(f, c)
    \/ \E force_rebuild \in BOOLEAN : RunBegin(force_rebuild)
    \/ RunFile(NoStepFault)
    \/ RunFlush(NoStepFault)
    \/ \E fault \in {"none", "embedding_model"} : RunFinish(NoCommit, fault)
    \/ Cancel
    \/ run.pc = "idle" /\ Search
    \/ \E m \in Models : run.pc = "idle" /\ Reconfigure(m)
    \/ \E d \in TickSteps : run.pc = "idle" /\ Tick(d)

SpecRunEngine == Init /\ [][NextRunEngine]_vars

(* ----------------------- chunk_file called directly --------------------- *)

\* the files of these specifications have up to MaxFileLines lines, and the
\* configurations a chunk_max_lines up to MaxChunkLines
MaxFileLines == 4

MaxChunkLines == 3

\* content.split("\n") of the files
FileContents == UNION {[1..n -> LineKinds] : n \in 1..MaxFileLines}

\* ServerConfig holds two integers that nothing relates to one another
Configs == [max_lines : 1..MaxChunkLines, overlap_lines : 0..MaxChunkLines]

WindowedConfigs == {cfg \in Configs : cfg.overlap_lines < cfg.max_lines}

\* chunk_file(content, file_path, max_lines, overlap_lines) is entered
ChunkFileCall(content, file_path, cfg) ==
    [pc |-> "called", content |-> content, file_path |-> file_path,
     max_lines |-> cfg.max_lines, overlap_lines |-> cfg.overlap_lines,
     chunks |-> <<>>, bounds |-> <<>>, idx |-> 0, lines |-> <<>>,
     line_offset |-> 0, i |-> 0, ret |-> "returned"]

InitChunk ==
    /\ InitEngine
    /\ query = NoQuery
    /\ \E content \in FileContents : \E file_path \in Files :
       \E cfg \in WindowedConfigs :
           chunking = ChunkFileCall(content, file_path, cfg)

\* chunk_file returns
ChunkFile ==
    /\ chunking.pc = "called"
    /\ chunking' = [chunking EXCEPT
                      !.pc = "returned",
                      !.chunks = chunk_file(chunking.content, chunking.file_path,
                                            chunking.max_lines,
                                            chunking.overlap_lines)]
    /\ UNCHANGED <<folder, fts, lance, meta, config_model, now, last, query, run>>

NextChunk == ChunkFile

SpecChunk == InitChunk /\ [][NextChunk]_vars

(* --------------------- chunk_file, statement by statement --------------- *)

\* lines[a:b] of Python: a negative index counts from the end, and both are
\* clamped to the list
PyIndex(n, a) == IF a < 0 THEN (IF a + n < 0 THEN 0 ELSE a + n) ELSE Min(a, n)

PySlice(lines, a, b) ==
    SubSeq(lines, PyIndex(Len(lines), a) + 1, PyIndex(Len(lines), b))

InitChunkSteps ==
    /\ InitEngine
    /\ query = NoQuery
    /\ \E content \in FileContents : \E file_path \in Files :
       \E cfg \in Configs :
           chunking = ChunkFileCall(content, file_path, cfg)

\* chunk_file up to the call of one of the two splitters
ChunkFileBegin ==
    /\ chunking.pc = "called"
    /\ chunking' =
           IF IsBlank(chunking.content)
           THEN [chunking EXCEPT !.pc = "returned"]
           ELSE IF _detect_language(chunking.file_path) = "python"
           THEN [chunking EXCEPT !.pc = "segments",
                                 !.bounds = boundary_indices(chunking.content),
                                 !.idx = 1]
           ELSE [chunking EXCEPT !.pc = "windows",
                                 !.lines = chunking.content,
                                 !.line_offset = 0, !.i = 0,
                                 !.ret = "returned"]
    /\ UNCHANGED <<folder, fts, lance, meta, config_model, now, last, query, run>>

\* one iteration of the loop over boundary_indices, up to the call of
\* _split_by_windows if the segment is a long one; and the return after the
\* last iteration
SegmentStep ==
    /\ chunking.pc = "segments"
    /\ chunking' =
           IF chunking.idx > Len(chunking.bounds)
           THEN [chunking EXCEPT !.pc = "returned"]
           ELSE LET start == chunking.bounds[chunking.idx]
                    end == IF chunking.idx + 1 <= Len(chunking.bounds)
                           THEN chunking.bounds[chunking.idx + 1]
                           ELSE Len(chunking.content)
                    segment_lines == SubSeq(chunking.content, start + 1, end)
                IN  IF Len(segment_lines) <= chunking.max_lines
                    THEN [chunking EXCEPT
                            !.chunks = Append(@, Chunk(chunking.file_path,
                                                       start + 1, end,
                                                       segment_lines)),
                            !.idx = @ + 1]
                    ELSE [chunking EXCEPT !.pc = "windows",
                                          !.lines = segment_lines,
                                          !.line_offset = start, !.i = 0,
                                          !.ret = "segments", !.idx = @ + 1]
    /\ UNCHANGED <<folder, fts, lance, meta, config_model, now, last, query, run>>

\* one iteration of the while loop of _split_by_windows; the loop is followed
\* until the call holds one chunk more than the file has lines
WindowStep ==
    /\ chunking.pc = "windows"
    /\ chunking.i < Len(chunking.lines)
    /\ Len(chunking.chunks) <= Len(chunking.content)
    /\ LET end == Min(chunking.i + chunking.max_lines, Len(chunking.lines))
           segment == PySlice(chunking.lines, chunking.i, end)
           next == chunking.i + (chunking.max_lines - chunking.overlap_lines)
       IN  chunking' = [chunking EXCEPT
                          !.chunks = Append(@, Chunk(chunking.file_path,
                                                     chunking.line_offset
                                                         + chunking.i + 1,
                                                     chunking.line_offset + end,
                                                     segment)),
                          !.i = next,
                          !.pc = IF next >= Len(chunking.lines)
                                 THEN chunking.ret ELSE "windows"]
    /\ UNCHANGED <<folder, fts, lance, meta, config_model, now, last, query, run>>

NextChunkSteps ==
    \/ ChunkFileBegin
    \/ SegmentStep
    \/ WindowStep

SpecChunkSteps == InitChunkSteps /\ [][NextChunkSteps]_vars

(* ------------------------------ claims --------------------------------- *)

FtsIds == {r.chunk_id : r \in fts}

LanceIds == {r.chunk_id : r \in DOMAIN lance}

\* the chunks the chunker produces for file f as the folder now holds it
FolderChunks(f) ==
    IF folder[f] = Absent THEN <<>> ELSE _chunk_text_file(folder, f)

FolderIds == UNION {{chunk_id(c) : c \in Range(FolderChunks(f))} : f \in Files}

\* the last operation was a completed index() and the folder has not changed since
AfterIndex == last.op = "index"

\* C1: between store operations the vector index and the text index hold the
\* same set of chunk_ids: no orphan on either side.
C1_NoOrphans == LanceIds = FtsIds

\* an index run that deleted a changed file's rows and upserted new ones
C1_Witness ==
    /\ AfterIndex
    /\ last.rows_deleted > 0
    /\ last.embedded # {}
    /\ fts # {}

\* C2: after a successful index() the store holds exactly the chunk_ids the
\* chunker produces for the files now in the folder.
C2_ExactChunkSet == AfterIndex => (FtsIds = FolderIds /\ LanceIds = FolderIds)

\* C3: a non-forced index() that finds a file's chunk_id set changed deletes the
\* file's old chunks and embeds and inserts every new chunk of the file, also
\* those whose content equals an old chunk's.
C3_ChangedFileFullyReinserted ==
    (AfterIndex /\ last.runs = <<FALSE>>) =>
        \A f \in last.deleted :
            \A c \in Range(FolderChunks(f)) :
                /\ c \in last.embedded
                /\ chunk_id(c) \in FtsIds
                /\ chunk_id(c) \in LanceIds

\* C4: once a file is removed, or yields no chunk any more, and an index() has
\* completed, neither index holds a chunk with that file_path.
C4_RemovedFileLeavesNoChunk ==
    AfterIndex =>
        \A f \in Files :
            FolderChunks(f) = <<>> =>
                /\ \A r \in fts : r.file_path # f
                /\ \A r \in DOMAIN lance : r.chunk_id[1] # f

\* C5: index() run twice in succession on an unchanged folder leaves both
\* indexes as the first run left them.
C5_Idempotent ==
    [][(last.op = "index" /\ last.runs = <<FALSE>>
        /\ last'.op = "index" /\ last'.runs = <<FALSE>>)
       => (fts' = fts /\ lance' = lance)]_vars

\* C6: a non-forced index() of a folder unchanged since the previous
\* successful index() sends nothing to the embedder and returns
\* chunks_created = 0 and chunks_skipped_unchanged = total_chunks.
C6_UnchangedFolderSkipsAll ==
    [][(last.op = "index" /\ last'.op = "index" /\ last'.runs = <<FALSE>>)
       => /\ last'.embedded = {}
          /\ last'.stats.chunks_created = 0
          /\ last'.stats.chunks_skipped_unchanged = last'.stats.total_chunks]_vars

\* C7: from the same store and the same folder, index(force=true) and index()
\* end with the same total_chunks and the same set of chunk_ids.
C7_ForceInvariance ==
    \A forced \in {index_repo(store, meta, folder, config_model, TRUE, now, NoCommit)},
       plain \in {index_repo(store, meta, folder, config_model, FALSE, now, NoCommit)} :
        /\ forced.stats.total_chunks = plain.stats.total_chunks
        /\ {r.chunk_id : r \in forced.st.fts} = {r.chunk_id : r \in plain.st.fts}
        /\ {r.chunk_id : r \in DOMAIN forced.st.lance}
               = {r.chunk_id : r \in DOMAIN plain.st.lance}

\* the search found a non-empty index built with another model than configured
FoundOtherModel ==
    /\ last.op = "search"
    /\ last.was_indexed
    /\ last.was_model \in Models
    /\ last.was_model # config_model

\* C8: a search() that finds a non-empty index built with model A while model
\* B is configured force-rebuilds first; afterwards repo_meta.embedding_model
\* is B and the vector index holds no vector produced by A.
C8_ModelChangeRebuild ==
    FoundOtherModel =>
        /\ last.runs = <<TRUE>>
        /\ meta.embedding_model = config_model
        /\ \A r \in DOMAIN lance : r.vector.model # last.was_model

\* the search found a non-empty index whose stored model is the configured one
FoundSameModel ==
    /\ last.op = "search"
    /\ last.was_indexed
    /\ last.was_model = config_model

\* C9: search() on a non-empty index of the configured model runs exactly one
\* incremental index() if the index is older than 300 seconds or has no
\* last_indexed_at, and otherwise runs none and leaves store and metadata alone.
C9_StaleRefresh ==
    [][(Search /\ is_indexed(fts) /\ meta.embedding_model = config_model)
       => IF meta.last_indexed_at = NoTime \/ now - meta.last_indexed_at > 300
          THEN last'.runs = <<FALSE>>
          ELSE last'.runs = <<>> /\ UNCHANGED <<fts, lance, meta>>]_vars

\* a search at age exactly 300 that ran nothing
C9_Witness ==
    /\ FoundSameModel
    /\ last.was_age = 300
    /\ last.runs = <<>>

\* C10: after a successful index(), status() reports chunk_count = 0 and
\* files_indexed = 0 exactly when no file of the folder yields a chunk, and
\* indexing an empty folder returns files_indexed = chunks_created =
\* total_chunks = 0.
C10_EmptyIffNoChunks ==
    AfterIndex =>
        LET s == status(store, meta, now)
        IN  /\ (s.chunk_count = 0 /\ s.files_indexed = 0) <=> (FolderIds = {})
            /\ (\A f \in Files : folder[f] = Absent) =>
                   /\ last.stats.files_indexed = 0
                   /\ last.stats.chunks_created = 0
                   /\ last.stats.total_chunks = 0

(* C11: rrf_merge gives every id the sum, over the ranked lists that hold
   it, of 1/(60 + r + 1) for its 0-based rank r in the list, and returns
   each id once, in non-increasing order of that score; so an id that is
   only at rank 0 of one list comes before an id that is only at rank 5 of
   one list, and an id in both lists scores the sum of its two terms. *)
InList(ranked, id) == \E i \in 1..Len(ranked) : ranked[i] = id

\* 0-based rank of id in a ranked list that holds it once
RankIn(ranked, id) == (CHOOSE i \in 1..Len(ranked) : ranked[i] = id) - 1

TermOf(ranked, id) ==
    IF InList(ranked, id) THEN [num |-> 1, den |-> 60 + RankIn(ranked, id) + 1]
    ELSE ZeroScore

FusedScore(id) ==
    AddScore(TermOf(query.vec_ids, id), TermOf(query.bm25_ids, id))

OnlyAtRank(id, r) ==
    \/ /\ InList(query.vec_ids, id) /\ RankIn(query.vec_ids, id) = r
       /\ ~InList(query.bm25_ids, id)
    \/ /\ InList(query.bm25_ids, id) /\ RankIn(query.bm25_ids, id) = r
       /\ ~InList(query.vec_ids, id)

MergedIds == {query.merged[i].doc_id : i \in 1..Len(query.merged)}

C11_RRFScoresAndOrder ==
    query.op = "rrf_merge" =>
        /\ MergedIds = Range(query.vec_ids) \cup Range(query.bm25_ids)
        /\ Len(query.merged) = Cardinality(MergedIds)
        /\ \A i \in 1..Len(query.merged) :
               ScoreEq(query.merged[i].score, FusedScore(query.merged[i].doc_id))
        /\ \A i, j \in 1..Len(query.merged) :
               i < j => ~ScoreLess(query.merged[i].score, query.merged[j].score)
        /\ \A i, j \in 1..Len(query.merged) :
               (/\ OnlyAtRank(query.merged[i].doc_id, 0)
                /\ OnlyAtRank(query.merged[j].doc_id, 5)) => i < j

C11_Witness ==
    /\ query.op = "rrf_merge"
    /\ \E a, b, c \in MergedIds :
           /\ OnlyAtRank(a, 0)
           /\ OnlyAtRank(b, 5)
           /\ InList(query.vec_ids, c) /\ InList(query.bm25_ids, c)

(* C12: whenever two ids have equal fused score, the output of rrf_merge
   has the one with the lexicographically smaller chunk_id first. *)
C12_TiesByChunkId ==
    query.op = "rrf_merge" =>
        \A i, j \in 1..Len(query.merged) :
            (/\ i < j
             /\ ScoreEq(query.merged[i].score, query.merged[j].score))
                => query.merged[i].doc_id < query.merged[j].doc_id

(* C13: hybrid_search returns [] when the vector list and the BM25 list are
   both empty; otherwise it returns at most top_k results, with pairwise
   distinct chunk_ids, in non-increasing order of fused score, and they are
   the top_k best-scored ids that have a row in the text index (all of
   them when fewer than top_k have one): no id with a row that is left out
   scores more than a returned one. *)
ResultIds == {query.results[i].chunk_id : i \in 1..Len(query.results)}

\* position in the merged list of the id of the i-th result
MergedAt(i) ==
    CHOOSE j \in 1..Len(query.merged) :
        query.merged[j].doc_id = query.results[i].chunk_id

\* ids of the merged list that have a row in the text index
Hydratable == {cid \in MergedIds : \E row \in fts : row.chunk_id = cid}

MergedScore(cid) ==
    query.merged[CHOOSE j \in 1..Len(query.merged) :
                     query.merged[j].doc_id = cid].score

C13_TopKWithTextRow ==
    query.op = "hybrid_search" =>
        /\ (query.vec_ids = <<>> /\ query.bm25_ids = <<>>) => query.results = <<>>
        /\ Len(query.results) <= query.top_k
        /\ Cardinality(ResultIds) = Len(query.results)
        /\ ResultIds \subseteq Hydratable
        /\ Len(query.results) = Min(query.top_k, Cardinality(Hydratable))
        /\ \A i, j \in 1..Len(query.results) :
               i < j => ~ScoreLess(query.merged[MergedAt(i)].score,
                                   query.merged[MergedAt(j)].score)
        /\ \A cid \in Hydratable \ ResultIds : \A got \in ResultIds :
               ~ScoreLess(MergedScore(got), MergedScore(cid))

(* C14: after an upsert_chunks call that returned, each index holds at most
   one row per chunk_id, and the rows of the call's ids are the ones the
   call wrote. *)
C14_OneRowPerIdMostRecent ==
    [][\A chunks \in ChunkLists : \A m \in Models :
          Upsert(chunks, m, NoFault) =>
              /\ \A cid \in HashKeys(DOMAIN lance') : RowsOf(lance', cid) <= 1
              /\ \A cid \in HashKeys(fts') :
                     Cardinality({row \in fts' : row.chunk_id = cid}) <= 1
              /\ \A c \in Range(chunks) :
                     /\ {r \in DOMAIN lance' : r.chunk_id = chunk_id(c)}
                            = {[chunk_id |-> chunk_id(c),
                                vector |-> Embed(m, embedding_text(c))]}
                     /\ {row.content : row \in {x \in fts' : x.chunk_id = chunk_id(c)}}
                            = {c.content}]_vars

(* C15: an upsert_chunks call in which the vector insert or a write of the
   text rows fails raises, and leaves both indexes as they were before the
   call. *)
C15_FailedUpsertRollsBack ==
    [][\A chunks \in ChunkLists : \A m \in Models :
       \A fault \in UpsertFaults(chunks) :
          (Upsert(chunks, m, fault) /\ fault.kind \in {"lance_add", "fts_write"})
              => (last'.raised /\ fts' = fts /\ lance' = lance)]_vars

(* C16: every failure of a store call made by index() ends index() with
   the error raised; no failed store call is passed over while the run
   goes on. *)
C16_StoreErrorsPropagate ==
    [][\A sf \in StoreRunFaults \ {NoStepFault} :
          (RunFile(sf) \/ RunFlush(sf))
              => (run'.pc = "idle" /\ last'.op = "index" /\ last'.raised)]_vars

(* C17: when the embedder fails on a batch, index() raises, the failing
   flush adds no row to either index, and the chunks of the batches flushed
   earlier in the run are in both indexes. *)
C17_EmbedFailureKeepsEarlierBatches ==
    [][\A sf \in RunFaults :
          ((RunFile(sf) \/ RunFlush(sf)) /\ sf.at = "embed")
              => /\ run'.pc = "idle" /\ last'.op = "index" /\ last'.raised
                 /\ fts' \subseteq fts
                 /\ \A r \in DOMAIN lance' :
                        r \in DOMAIN lance /\ lance'[r] <= lance[r]
                 /\ \A c \in run.embedded :
                        chunk_id(c) \in FtsIds' /\ chunk_id(c) \in LanceIds']_vars

C17_Witness ==
    /\ last.op = "index"
    /\ last.raised
    /\ last.cause = "embed"
    /\ last.created > 0
    /\ FtsIds # {}

(* C18: an index() that raises leaves last_indexed_at, last_commit and
   embedding_model as they were; they are written only by a run that
   returns. *)
C18_FailedRunKeepsMetadata ==
    [][(run.pc # "idle" /\ run'.pc = "idle" /\ last'.raised) => meta' = meta]_vars

(* C19: the iteration of a file whose read fails changes neither the store
   nor the batch, does not count the file and goes on to the next file; and
   a run that returns leaves the store and returns the statistics that the
   run without the unreadable files leaves and returns. *)
C19_UnreadableFileIsSkipped ==
    [][/\ \A sf \in RunFaults :
             (RunFile(sf) /\ sf.at = "read")
                 => /\ run'.pc = "files"
                    /\ run'.i = run.i + 1
                    /\ run'.files_indexed = run.files_indexed
                    /\ run'.batch = run.batch
                    /\ fts' = fts /\ lance' = lance
       /\ (run.pc = "meta" /\ run'.pc = "idle" /\ ~last'.raised)
             => \A r \in {index_repo(run.st0, meta,
                                     [f \in Files |-> IF f \in run.unread
                                                      THEN Absent ELSE folder[f]],
                                     config_model, run.force_rebuild, now,
                                     NoCommit)} :
                    /\ fts' = r.st.fts
                    /\ lance' = r.st.lance
                    /\ last'.stats = r.stats]_vars

C19_Witness ==
    /\ last.op = "index"
    /\ ~last.raised
    /\ last.unread # {}
    /\ last.stats.files_indexed > 0
    /\ last.stats.chunks_created > 0

(* C20: when an index() was cancelled or ended on an embedder failure, the
   next index() on the same folder content that is not forced and returns
   leaves both indexes holding exactly the chunk ids of the folder. *)
C20_RunAfterAbortConverges ==
    [][(/\ run.pc = "meta" /\ run'.pc = "idle" /\ ~last'.raised
        /\ ~run.force_rebuild
        /\ run.unread = {}
        /\ last.op = "index" /\ last.raised
        /\ last.cause \in {"cancel", "embed"})
           => (FtsIds' = FolderIds /\ LanceIds' = FolderIds)]_vars

(* C21: at every point of an index run a reader of the store finds, for
   every file, the complete chunk set the file had when the run began or the
   complete chunk set of the file as the folder holds it; never the old
   chunks deleted and their replacement not yet written. *)
FileIds(rows, f) == {r.chunk_id : r \in {x \in rows : x.file_path = f}}

C21_ReaderSeesOldOrNewSet ==
    run.pc # "idle" =>
        \A f \in Files :
            \/ FileIds(fts, f) = FileIds(run.st0.fts, f)
            \/ FileIds(fts, f) = {chunk_id(c) : c \in Range(FolderChunks(f))}

\* a chunk_file call that returned chunks of a file that is not blank
Returned == chunking.pc = "returned" /\ ~IsBlank(chunking.content)

(* C22: for a non-blank file of N lines and a configuration with
   0 <= overlap_lines < max_lines, every chunk that chunk_file returns has
   1 <= start_line <= end_line <= N, and every line 1..N of the file lies in
   the line range of some chunk. *)
C22_ChunksCoverTheFile ==
    Returned =>
        /\ \A k \in 1..Len(chunking.chunks) :
               /\ 1 <= chunking.chunks[k].start_line
               /\ chunking.chunks[k].start_line <= chunking.chunks[k].end_line
               /\ chunking.chunks[k].end_line <= Len(chunking.content)
        /\ \A n \in 1..Len(chunking.content) :
               \E k \in 1..Len(chunking.chunks) :
                   /\ chunking.chunks[k].start_line <= n
                   /\ n <= chunking.chunks[k].end_line

\* a file of MaxFileLines lines whose long second segment is split by windows
C22_Witness ==
    /\ Returned
    /\ Len(chunking.content) = MaxFileLines
    /\ _detect_language(chunking.file_path) = "python"
    /\ \E k \in 2..Len(chunking.chunks) :
           /\ chunking.chunks[k].start_line > chunking.chunks[k - 1].start_line
           /\ chunking.chunks[k].start_line <= chunking.chunks[k - 1].end_line
           /\ chunking.chunks[1].end_line < chunking.chunks[k - 1].start_line

\* the lines (0-based) at which a segment of the file begins: line 0 and
\* every later line the boundary pattern matches; and where the segment ends
SegmentStarts ==
    {0} \cup {i \in 1..(Len(chunking.content) - 1) :
                 PatternMatch(chunking.content[i + 1])}

SegmentEnd(b) ==
    IF \E e \in SegmentStarts : e > b
    THEN CHOOSE e \in SegmentStarts :
             e > b /\ \A x \in SegmentStarts : x > b => e <= x
    ELSE Len(chunking.content)

\* the chunks that begin in the segment, in the order chunk_file returns them
ChunksOfSegment(b) ==
    SelectSeq(chunking.chunks,
              LAMBDA c : b + 1 <= c.start_line /\ c.start_line <= SegmentEnd(b))

(* C25: in code chunking the first segment begins at line 0; a segment of at
   most max_lines lines yields exactly one chunk, which spans the segment;
   a longer segment yields windows of at most max_lines lines each, the
   first at the segment's start and each next one max_lines - overlap_lines
   lines further. *)
C25_SegmentsAndWindows ==
    (Returned /\ _detect_language(chunking.file_path) = "python") =>
        /\ Len(chunking.chunks) > 0
        /\ chunking.chunks[1].start_line = 1
        /\ \A b \in SegmentStarts :
               \A cs \in {ChunksOfSegment(b)} :
                   IF SegmentEnd(b) - b <= chunking.max_lines
                   THEN cs = <<Chunk(chunking.file_path, b + 1, SegmentEnd(b),
                                     SubSeq(chunking.content, b + 1,
                                            SegmentEnd(b)))>>
                   ELSE /\ Len(cs) > 1
                        /\ cs[1].start_line = b + 1
                        /\ \A k \in 1..Len(cs) :
                               /\ cs[k].end_line - cs[k].start_line + 1
                                      <= chunking.max_lines
                               /\ cs[k].end_line <= SegmentEnd(b)
                               /\ cs[k].content
                                      = SubSeq(chunking.content,
                                               cs[k].start_line, cs[k].end_line)
                        /\ \A k \in 2..Len(cs) :
                               cs[k].start_line
                                   = cs[k - 1].start_line
                                     + (chunking.max_lines
                                        - chunking.overlap_lines)

\* a file with a short segment and with a long one that does not begin at
\* line 0
C25_Witness ==
    /\ Returned
    /\ _detect_language(chunking.file_path) = "python"
    /\ chunking.overlap_lines > 0
    /\ \E b \in SegmentStarts : SegmentEnd(b) - b <= chunking.max_lines
    /\ \E b \in SegmentStarts :
           /\ b > 0
           /\ SegmentEnd(b) - b > chunking.max_lines
           /\ Len(ChunksOfSegment(b)) > 1

(* C29: chunk_file terminates under every configuration with
   chunk_max_lines >= 1 and chunk_overlap_lines >= 0: the loops over the
   lines and over the boundaries are bounded by the file, and every
   iteration of the while loop of _split_by_windows moves i forward, so
   that i reaches len(lines) and the loop ends. *)
C29_WindowLoopAdvances ==
    [][WindowStep => chunking'.i > chunking.i]_vars

(* C30: in window splitting with 0 <= overlap_lines < max_lines every window
   after the first holds a line that the window before it does not cover,
   and a file of at most max_lines lines yields a single chunk. *)
C30_EveryWindowAddsALine ==
    (Returned /\ _detect_language(chunking.file_path) = "unknown") =>
        /\ \A k \in 2..Len(chunking.chunks) :
               chunking.chunks[k].end_line > chunking.chunks[k - 1].end_line
        /\ Len(chunking.content) <= chunking.max_lines
               => Len(chunking.chunks) = 1

\* every chunk the chunker produces for the files the folder holds
FolderChunkSet == UNION {Range(FolderChunks(f)) : f \in Files}

(* C23: index(force_rebuild = true) skips nothing: every chunk the chunker
   produces for the folder is sent to the embedder and is upserted, with the
   vector of the configured model, into both indexes; the run returns
   chunks_skipped_unchanged = 0 and chunks_created = the number of chunks
   the chunker produced. *)
C23_ForceEmbedsEveryChunk ==
    (last.op = "index" /\ last.runs = <<TRUE>>) =>
        /\ last.embedded = FolderChunkSet
        /\ \A c \in FolderChunkSet :
               /\ chunk_id(c) \in FtsIds
               /\ [chunk_id |-> chunk_id(c),
                   vector |-> Embed(config_model, embedding_text(c))]
                      \in DOMAIN lance
        /\ last.stats.chunks_skipped_unchanged = 0
        /\ last.stats.chunks_created = Cardinality(FolderChunkSet)

\* a forced run on a folder whose chunks were all in the store, under
\* another model
C23_Witness ==
    /\ last.op = "index"
    /\ last.runs = <<TRUE>>
    /\ last.was_indexed
    /\ last.was_model \notin {None, config_model}
    /\ Cardinality(FolderChunkSet) > BATCH_SIZE
    /\ last.rows_deleted = 0

(* C24: when the store holds chunks and repo_meta has no embedding_model,
   search() makes no forced rebuild, whatever model is configured; and an
   index run that completes, the one search() makes included, sets
   embedding_model to the configured model. *)
C24_UnsetModelNoRebuild ==
    [][/\ (Search /\ is_indexed(fts) /\ meta.embedding_model = None)
              => /\ last'.runs \in {<<>>, <<FALSE>>}
                 /\ last'.runs # <<>> => meta'.embedding_model = config_model
       /\ (run.pc = "meta" /\ run'.pc = "idle" /\ ~last'.raised
           /\ meta.embedding_model = None)
              => meta'.embedding_model = config_model]_vars

\* a search() under model B that found chunks of an index without
\* embedding_model, and ran an index that was not forced
C24_Witness ==
    /\ last.op = "search"
    /\ last.was_indexed
    /\ last.was_model = None
    /\ config_model = "B"
    /\ last.runs = <<FALSE>>
    /\ meta.embedding_model = "B"

(* C26: in every state reached by index runs, forced or not, called
   directly or by search(), under any sequence of configured models: when
   repo_meta holds embedding_model = M, every vector of the vector index
   was produced by the embedder of model M. *)
C26_VectorsOfStoredModel ==
    meta.embedding_model # None =>
        \A r \in DOMAIN lance : r.vector.model = meta.embedding_model

(* C27: when the folder stops changing, finitely many index() runs
   without force bring both indexes to exactly the chunk ids of the folder,
   and later runs leave them so.  The store a run leaves depends on the
   store it finds, the folder and the configured model only; so a run
   without force that leaves the store as it found it is followed, on the
   same folder, only by runs that do the same, and the store it leaves is
   the one all later runs leave: it holds exactly the chunk ids of the
   folder. *)
C27_SettledStoreIsTheFolder ==
    [][(Index(FALSE) /\ fts' = fts /\ lance' = lance)
           => (FtsIds' = FolderIds /\ LanceIds' = FolderIds)]_vars

(* C28: the chunks_deleted of the IndexStats that index() returns is the
   number of chunk rows the run removed from the store through
   delete_file_chunks. *)
C28_ChunksDeletedCounted ==
    last.op = "index" => last.stats.chunks_deleted = last.rows_deleted

====
